---- MODULE Spec2Model ----
(***************************************************************************)
(* A model of the memory-management core of riscvos: the intrusive         *)
(* free-list page allocator (src/src/page_allocator.rs) and the Sv39       *)
(* address types, page-table entries, page tables and VirtualMemory        *)
(* (src/src/page_table.rs).                                                *)
(*                                                                         *)
(* A u64 is the set of its set bits, a subset of 0..63, so that the bit    *)
(* operations of the source are exact on all 64 bits.  Physical memory is  *)
(* a function from frame addresses to the frame's 512 eight-byte words; a  *)
(* frame maps only its non-zero words, every other word reads as zero.     *)
(***************************************************************************)
EXTENDS Integers, Sequences, FiniteSets, TLC

VARIABLES
    free_list,   \* PageAllocator.free_list: None or Some(address)
    mem,         \* physical memory: frame address -> (word index -> u64)
    root_table,  \* VirtualMemory.root_table: None or Some(address)
    heap,        \* the arguments of PageAllocator::new, and the frame count
    allocated,   \* history: frames handed out by alloc and not given back
    history,     \* history: what has happened to the allocator so far
    lifo,        \* history: the stack of frames the LIFO discipline predicts
    last,        \* history: the last operation, its arguments and result
    raw,         \* the input of an address conversion
    pc,          \* the hart's position in initialise_kernel and the test after it
    locks        \* the spin::Mutex statics that are locked

vars ==
    <<free_list, mem, root_table, heap, allocated, history, lifo, last, raw, pc,
      locks>>

---------------------------------------------------------------------------
(* u64 arithmetic on bit sets *)

Bits == 0 .. 63

Zero == {}

One == {0}

\* The u64 of a natural number below 2^31.
FromNat(n) == {i \in 0 .. 30 : (n \div 2 ^ i) % 2 = 1}

RECURSIVE ToNat(_)
\* The natural number of a u64 below 2^31.
ToNat(a) ==
    IF a = {} THEN 0
    ELSE LET i == CHOOSE j \in a : TRUE IN 2 ^ i + ToNat(a \ {i})

BitAnd(a, b) == a \cap b

BitOr(a, b) == a \cup b

BitNot(a) == Bits \ a

\* a << n and a >> n on 64 bits: the bits shifted out are lost.
Shl(a, n) == {i + n : i \in {j \in a : j + n <= 63}}

Shr(a, n) == {i - n : i \in {j \in a : j >= n}}

\* (1 << n) - 1
LowMask(n) == 0 .. (n - 1)

\* a + b modulo 2^64: bit i of the sum is a[i] xor b[i] xor the carry into i,
\* and a carry enters i when some lower bit j generates one (both operands
\* have it) and every bit between j and i propagates it (one operand has it).
\* When no bit generates a carry the sum is the union of the operands.
Add(a, b) ==
    LET gen == a \cap b
        prop == a \cup b
        Carry(i) == \E j \in gen : j < i /\ \A k \in (j + 1) .. (i - 1) : k \in prop
    IN  IF gen = {} THEN prop
        ELSE {i \in Bits : ((i \in a) # (i \in b)) # Carry(i)}

\* a > b as unsigned integers: the highest bit in which they differ is a's.
Gt(a, b) == \E i \in a \ b : \A j \in b \ a : j < i

---------------------------------------------------------------------------
(* Option values and physical memory *)

None == <<>>

Some(x) == <<x>>

IsSome(o) == o # None

Unwrap(o) == o[1]

PAGE_SIZE == FromNat(4096)

\* The frame an address lies in, and the index of its 8-byte word in the frame.
FrameOf(addr) == addr \ LowMask(12)

WordOf(addr) == ToNat(Shr(BitAnd(addr, LowMask(12)), 3))

ZeroFrame == [i \in {} |-> {}]

\* *(addr as *const u64)
Load(m, addr) ==
    LET f == FrameOf(addr)
        w == WordOf(addr)
    IN  IF f \in DOMAIN m /\ w \in DOMAIN m[f] THEN m[f][w] ELSE Zero

\* *(addr as *mut u64) = v
Store(m, addr, v) ==
    LET f == FrameOf(addr)
        w == WordOf(addr)
    IN  IF f \notin DOMAIN m THEN m
        ELSE [m EXCEPT ![f] =
                 [i \in (DOMAIN @ \ {w}) \cup (IF v = Zero THEN {} ELSE {w}) |->
                     IF i = w THEN v ELSE @[i]]]

\* core::ptr::write_bytes(page as *mut u8, 0, PAGE_SIZE)
write_bytes_zero(m, page) ==
    IF page \in DOMAIN m THEN [m EXCEPT ![page] = ZeroFrame] ELSE m

---------------------------------------------------------------------------
(* page_allocator.rs: PageRange, FreePageNode, PageAllocator *)

RECURSIVE PageRange_short(_, _)
\* A variant of PageRange that stops one frame early (>= for >).
PageRange_short(next_page, last_page) ==
    IF Gt(next_page, last_page) \/ next_page = last_page THEN <<>>
    ELSE <<next_page>> \o PageRange_short(Add(next_page, PAGE_SIZE), last_page)

RECURSIVE PageRange(_, _)
\* The addresses PageRange::new(start, end) yields, in order: next() returns
\* next_page and adds PAGE_SIZE to it until next_page > last_page.
PageRange(next_page, last_page) ==
    IF Gt(next_page, last_page) THEN <<>>
    ELSE <<next_page>> \o PageRange(Add(next_page, PAGE_SIZE), last_page)

\* FreePageNode { next: Option<*mut FreePageNode> } as the build lays it out in
\* the frame: the discriminant in the first word (0 None, 1 Some), the pointer
\* in the second.
LoadNode(m, p) ==
    IF Load(m, p) = One THEN Some(Load(m, Add(p, FromNat(8)))) ELSE None

\* *page_ptr = FreePageNode { next }: a None leaves the pointer word as it was.
StoreNode(m, p, next) ==
    IF IsSome(next)
    THEN Store(Store(m, p, One), Add(p, FromNat(8)), Unwrap(next))
    ELSE Store(m, p, Zero)

\* A variant of dealloc that checks for the commonest double free: a page
\* that is already the head of the free list is left where it is.
dealloc_checked(fl, m, page) ==
    IF fl = Some(page) THEN [free_list |-> fl, mem |-> m]
    ELSE [free_list |-> Some(page), mem |-> StoreNode(m, page, fl)]

\* A variant of dealloc that does not link the old head behind the page.
dealloc_unlinked(fl, m, page) ==
    [free_list |-> Some(page), mem |-> StoreNode(m, page, None)]

\* PageAllocator::dealloc
dealloc(fl, m, page) ==
    [free_list |-> Some(page), mem |-> StoreNode(m, page, fl)]

RECURSIVE DeallocAll(_, _)
\* for page in PageRange::new(..) { a.dealloc(page) }, from the allocator `a`
DeallocAll(pages, a) ==
    IF pages = <<>> THEN a
    ELSE DeallocAll(Tail(pages), dealloc(a.free_list, a.mem, Head(pages)))

\* PageAllocator::new
PageAllocator_new(heap_start, heap_end, m) ==
    DeallocAll(PageRange(heap_start, heap_end), [free_list |-> None, mem |-> m])

\* A variant of alloc that clears only the free-list node, not the frame.
alloc_node_cleared(fl, m) ==
    IF fl = None
    THEN [ok |-> FALSE, err |-> "NoPagesAvailable", page |-> None,
          free_list |-> fl, mem |-> m]
    ELSE LET page_ptr == Unwrap(fl)
         IN  [ok |-> TRUE, err |-> "", page |-> Some(page_ptr),
              free_list |-> LoadNode(m, page_ptr),
              mem |-> Store(Store(m, page_ptr, Zero),
                            Add(page_ptr, FromNat(8)), Zero)]

\* A variant of alloc that hands out the head of the free list without
\* advancing the list.
alloc_head_kept(fl, m) ==
    IF fl = None
    THEN [ok |-> FALSE, err |-> "NoPagesAvailable", page |-> None,
          free_list |-> fl, mem |-> m]
    ELSE LET page_ptr == Unwrap(fl)
         IN  [ok |-> TRUE, err |-> "", page |-> Some(page_ptr),
              free_list |-> fl,
              mem |-> write_bytes_zero(m, page_ptr)]

\* PageAllocator::alloc: the head is advanced from the link read in the frame,
\* then the frame is zero-filled.
alloc(fl, m) ==
    IF fl = None
    THEN [ok |-> FALSE, err |-> "NoPagesAvailable", page |-> None,
          free_list |-> fl, mem |-> m]
    ELSE LET page_ptr == Unwrap(fl)
         IN  [ok |-> TRUE, err |-> "", page |-> Some(page_ptr),
              free_list |-> LoadNode(m, page_ptr),
              mem |-> write_bytes_zero(m, page_ptr)]

\* The result of a free_pages call whose loop never ends.
Diverges == 0 - 1

RECURSIVE CountFrom(_, _, _)
CountFrom(node, m, seen) ==
    IF node = None THEN 0
    ELSE IF Unwrap(node) \in seen THEN Diverges
    ELSE LET rest == CountFrom(LoadNode(m, Unwrap(node)), m, seen \cup {Unwrap(node)})
         IN  IF rest = Diverges THEN Diverges ELSE rest + 1

\* A variant of free_pages that does not count the last node.
free_pages_short(fl, m) ==
    LET n == CountFrom(fl, m, {}) IN IF n > 0 THEN n - 1 ELSE n

\* PageAllocator::free_pages: the number of nodes followed from the head; on a
\* cyclic list the loop does not end.
free_pages(fl, m) == CountFrom(fl, m, {})

RECURSIVE ChainFrom(_, _, _)
\* The frames the free list links, from the head, each once.
ChainFrom(node, m, seen) ==
    IF node = None \/ Unwrap(node) \in seen THEN <<>>
    ELSE <<Unwrap(node)>> \o
         ChainFrom(LoadNode(m, Unwrap(node)), m, seen \cup {Unwrap(node)})

FreeChain(fl, m) == ChainFrom(fl, m, {})

FreeSet(fl, m) == LET chain == FreeChain(fl, m) IN {chain[i] : i \in DOMAIN chain}

---------------------------------------------------------------------------
(* The allocator on its own: new over a range of 1..MaxFrames frames, then  *)
(* any sequence of alloc, dealloc and free_pages calls, with the holder of  *)
(* a frame writing to it.                                                   *)

\* The largest heap range, in frames.
MaxFrames == 3

\* The largest heap initialise_kernel builds its allocator from, in frames.
MaxInitFrames == 7

\* The largest heap range given to a VirtualMemory, in frames.
MaxVMFrames == 4

\* How many alloc calls beyond the frame count are followed before a dealloc.
MaxExtraCalls == 2

\* The linker's HEAP_START (0x8010_0008 here: not frame-aligned).
HEAP_START == {3, 20, 31}

\* a - b modulo 2^64.
Sub(a, b) == Add(a, Add(BitNot(b), One))

\* test::heap_addresses(size): the first frame boundary above HEAP_START and
\* the frame size - 1 frames later.
heap_addresses(size) ==
    LET heap_start_address ==
            Sub(Add(HEAP_START, PAGE_SIZE), BitAnd(HEAP_START, LowMask(12)))
    IN  <<heap_start_address,
          Add(heap_start_address, Shl(FromNat(size - 1), 12))>>

\* The k-th frame of the heap, k = 1, 2, ...
FrameAt(k) == heap_addresses(k)[2]

\* The largest number of frames of physical memory any specification keeps.
MemFrames == MaxFrames + MaxVMFrames + MaxInitFrames

HeapFrame == [k \in 1 .. MemFrames |-> FrameAt(k)]

\* The frames of physical memory the model keeps.
PhysFrames(n) == {HeapFrame[k] : k \in 1 .. n}

\* What a frame holds before the allocator first touches it, and what its
\* holder writes into it: words 0 and 1 (where a free-list node lies), 2 and 511.
JunkFrame == [i \in {0, 1, 2, 511} |-> Bits]

InitialContents == {ZeroFrame, JunkFrame}

NoHistory ==
    [calls |-> 0, dealloc_seen |-> FALSE, misuse |-> FALSE,
     double_free |-> FALSE, hung |-> FALSE]

InitAlloc ==
    \E n \in 1 .. MaxFrames, junk \in InitialContents :
        LET range == heap_addresses(n)
            a == PageAllocator_new(range[1], range[2],
                                   [f \in PhysFrames(MaxFrames) |-> junk])
        IN  /\ free_list = a.free_list
            /\ mem = a.mem
            /\ root_table = None
            /\ heap = [start |-> range[1], end |-> range[2], frames |-> n]
            /\ allocated = {}
            /\ history = NoHistory
            /\ lifo = [i \in 1 .. n |-> HeapFrame[n + 1 - i]]
            /\ last = [op |-> "new"]
            /\ raw = Zero
            /\ pc = 0
            /\ locks = {}

\* allocator.alloc()
Alloc ==
    /\ ~history.hung
    /\ history.dealloc_seen \/ history.calls < heap.frames + MaxExtraCalls
    /\ LET r == alloc(free_list, mem)
       IN  /\ free_list' = r.free_list
           /\ mem' = r.mem
           /\ allocated' = IF r.ok THEN allocated \cup {Unwrap(r.page)} ELSE allocated
           /\ last' = [op |-> "alloc", ok |-> r.ok, err |-> r.err, page |-> r.page,
                       fp_before |-> free_pages(free_list, mem),
                       link_before |-> IF r.ok THEN LoadNode(mem, Unwrap(r.page))
                                       ELSE None,
                       words_before |-> IF r.ok /\ Unwrap(r.page) \in DOMAIN mem
                                        THEN DOMAIN mem[Unwrap(r.page)] ELSE {},
                       expected |-> IF lifo # <<>> THEN Some(Head(lifo)) ELSE None]
    /\ history' = [history EXCEPT
                      !.calls = IF history.dealloc_seen THEN @ ELSE @ + 1]
    /\ lifo' = IF lifo = <<>> THEN lifo ELSE Tail(lifo)
    /\ UNCHANGED <<root_table, heap, raw, pc, locks>>

\* allocator.dealloc(page), for any frame: the code checks nothing.  One
\* dealloc of a frame that is not allocated (a double free, or a frame the
\* allocator never handed out) is followed in a behaviour; after it dealloc is
\* applied to allocated frames only.
Dealloc(page) ==
    /\ ~history.hung
    /\ page \in allocated \/ ~history.misuse
    /\ LET r == dealloc(free_list, mem, page)
           bad == history.misuse \/ page \notin allocated
       IN  /\ free_list' = r.free_list
           /\ mem' = r.mem
           /\ history' = [history EXCEPT
                             !.calls = 0,
                             !.dealloc_seen = TRUE,
                             !.misuse = bad,
                             !.double_free = @ \/ page \in FreeSet(free_list, mem)]
           /\ lifo' = IF bad THEN <<>> ELSE <<page>> \o lifo
           /\ last' = [op |-> "dealloc", ok |-> TRUE, page |-> Some(page),
                       fp_before |-> free_pages(free_list, mem)]
    /\ allocated' = allocated \ {page}
    /\ UNCHANGED <<root_table, heap, raw, pc, locks>>

\* allocator.free_pages(): on a cyclic list the call does not return.
FreePages ==
    /\ ~history.hung
    /\ LET n == free_pages(free_list, mem)
       IN  /\ last' = [op |-> "free_pages", ok |-> n # Diverges, ret |-> n]
           /\ history' = [history EXCEPT !.hung = (n = Diverges)]
    /\ UNCHANGED <<free_list, mem, root_table, heap, allocated, lifo, raw,
                   pc, locks>>

\* The holder of an allocated frame fills it with its own data.
Scribble(page) ==
    /\ ~history.hung
    /\ page \in allocated \ FreeSet(free_list, mem)
    /\ mem[page] # JunkFrame
    /\ mem' = [mem EXCEPT ![page] = JunkFrame]
    /\ last' = [op |-> "write", ok |-> TRUE, page |-> Some(page)]
    /\ UNCHANGED <<free_list, root_table, heap, allocated, history, lifo,
                   raw, pc, locks>>

NextAlloc ==
    \/ Alloc
    \/ \E page \in PhysFrames(MaxFrames) : Dealloc(page)
    \/ FreePages
    \/ \E page \in PhysFrames(MaxFrames) : Scribble(page)

SpecAlloc == InitAlloc /\ [][NextAlloc]_vars

\* The free list is only ever followed through nodes that dealloc wrote or
\* alloc zero-filled: the discriminant read is 0 or 1.
NodesWellFormed ==
    \A f \in FreeSet(free_list, mem) : Load(mem, f) \in {Zero, One}

---------------------------------------------------------------------------
(* Claims about the allocator *)

\* C1: on an allocator over N frames, with no dealloc so far, the k-th call of
\* alloc succeeds exactly when k <= N, and a failing call fails with
\* NoPagesAvailable.
C1_ExactlyNAllocsSucceed ==
    (last.op = "alloc" /\ ~history.dealloc_seen) =>
        /\ last.ok <=> history.calls <= heap.frames
        /\ ~last.ok => last.err = "NoPagesAvailable" /\ last.page = None

\* The second call after the last frame has failed.
C1_Witness ==
    /\ last.op = "alloc" /\ ~history.dealloc_seen /\ ~last.ok
    /\ heap.frames >= 2
    /\ history.calls = heap.frames + MaxExtraCalls

\* C2: the free list is a LIFO stack: new leaves the frames stacked with the
\* highest address on top, and while dealloc is only applied to allocated
\* frames the list is the stack of frames pushed by dealloc and popped by
\* alloc, alloc returning its top.
C2_LifoOrder ==
    ~history.misuse =>
        /\ FreeChain(free_list, mem) = lifo
        /\ last.op = "alloc" => last.page = last.expected

\* Two frames A > B, both allocated, B freed then A: alloc returns A, B is next.
C2_Witness ==
    /\ ~history.misuse /\ history.dealloc_seen
    /\ heap.frames = 2
    /\ last.op = "alloc" /\ last.page = Some(HeapFrame[2])
    /\ lifo = <<HeapFrame[1]>>
    /\ allocated = {HeapFrame[2]}

\* C3 as stated: free_pages is the frame count after new, one less after a
\* successful alloc, the same after a failed one, one more after every dealloc.
C3_FreeCountEveryDealloc ==
    LET fp == free_pages(free_list, mem)
    IN  /\ last.op = "new" => fp = heap.frames
        /\ (last.op = "alloc" /\ last.ok) =>
               fp # Diverges /\ fp = last.fp_before - 1
        /\ (last.op = "alloc" /\ ~last.ok) => fp = last.fp_before
        /\ last.op = "dealloc" => fp # Diverges /\ fp = last.fp_before + 1

\* C3: the same, as long as no dealloc was applied to a frame that was on the
\* free list.
C3_FreeCountNoDoubleFree ==
    ~history.double_free => C3_FreeCountEveryDealloc

\* A dealloc of a frame that was not on the list of one frame.
C3_Witness ==
    /\ last.op = "dealloc" /\ ~history.double_free
    /\ last.fp_before = 1
    /\ free_pages(free_list, mem) = 2

\* C4: the frame a successful alloc returns holds only zero words when it is
\* returned, and the head is the link the frame held before it was cleared.
C4_AllocZeroFills ==
    (last.op = "alloc" /\ last.ok) =>
        /\ DOMAIN mem[Unwrap(last.page)] = {}
        /\ free_list = last.link_before

\* The frame held a link to another frame and the data of an earlier holder.
C4_Witness ==
    /\ last.op = "alloc" /\ last.ok /\ history.dealloc_seen
    /\ IsSome(last.link_before)
    /\ {0, 1, 2, 511} \subseteq last.words_before

\* C25: while dealloc is applied to allocated frames only, the free list is
\* a finite chain that ends in None and holds no frame twice and no allocated
\* frame, free_pages returns its length, and a successful alloc returns a frame
\* that was on the list and was not allocated.  dealloc checks nothing: for
\* every page, allocated or not, it makes the page the head and links the old
\* head behind it, and it has no error to report.
C25_FreeListWellFormed ==
    [][LET free == FreeSet(free_list, mem)
           free2 == FreeSet(free_list', mem')
       IN  /\ last'.op = "dealloc" =>
                  /\ last'.ok
                  /\ free_list' = last'.page
                  /\ LoadNode(mem', Unwrap(last'.page)) = free_list
           /\ ~history'.misuse =>
                  /\ free_pages(free_list, mem) = Cardinality(free)
                  /\ free_pages(free_list', mem') # Diverges
                  /\ free_pages(free_list', mem') = Cardinality(free2)
                  /\ free2 \cap allocated' = {}
                  /\ free2 \cup allocated' = PhysFrames(heap.frames)
                  /\ (last'.op = "alloc" /\ last'.ok) =>
                         /\ Unwrap(last'.page) \in free \ allocated
                         /\ Unwrap(last'.page) \notin free2
                  /\ last'.op = "free_pages" =>
                         last'.ok /\ last'.ret = Cardinality(free2)]_vars

\* Three frames were allocated, two of them given back, one allocated again:
\* free_pages returns 1 with two frames held.
C25_Witness ==
    /\ ~history.misuse /\ history.dealloc_seen
    /\ heap.frames = 3 /\ Cardinality(allocated) = 2
    /\ last.op = "free_pages" /\ last.ok /\ last.ret = 1
    /\ HeapFrame[1] \in allocated

---------------------------------------------------------------------------
(* page_table.rs: VirtualAddress *)

OutOfRange == [ok |-> FALSE, err |-> "OutOfVirtualMemoryRange", value |-> Zero]

\* impl TryFrom<u64> for VirtualAddress
try_from(value) ==
    LET mask == BitNot(LowMask(39))
    IN  IF BitAnd(value, mask) # Zero THEN OutOfRange
        ELSE IF BitAnd(Shr(value, 38), One) = One
        THEN [ok |-> TRUE, err |-> "", value |-> BitOr(value, mask)]
        ELSE [ok |-> TRUE, err |-> "", value |-> BitAnd(value, BitNot(mask))]

\* VirtualAddress::page_table_index: (value >> (12 + level * 9)) & ((1 << 9) - 1)
page_table_index(virt, level) ==
    BitAnd(Shr(virt, 12 + level * 9), LowMask(9))

\* VirtualAddress::offset: value & !((1 << 12) - 1)
offset(virt) == BitAnd(virt, BitNot(LowMask(12)))

---------------------------------------------------------------------------
(* page_table.rs: PageTableEntry *)

\* PageTableEntry::is_valid: value & (1 << 0) == 1
is_valid(pte) == BitAnd(pte, Shl(One, 0)) = One

\* PageTableEntry::is_readable: value & (1 << 1) == 1
is_readable(pte) == BitAnd(pte, Shl(One, 1)) = One

\* PageTableEntry::is_writable: value & (1 << 2) == 1
is_writable(pte) == BitAnd(pte, Shl(One, 2)) = One

\* PageTableEntry::is_executable: value & (1 << 3) == 1
is_executable(pte) == BitAnd(pte, Shl(One, 3)) = One

\* PageTableEntry::is_user_accessible: value & (1 << 4) == 1
is_user_accessible(pte) == BitAnd(pte, Shl(One, 4)) = One

\* PageTableEntry::is_global: value & (1 << 5) == 1
is_global(pte) == BitAnd(pte, Shl(One, 5)) = One

\* PageTableEntry::has_been_accessed: value & (1 << 6) == 1
has_been_accessed(pte) == BitAnd(pte, Shl(One, 6)) = One

\* PageTableEntry::is_dirty: value & (1 << 7) == 1
is_dirty(pte) == BitAnd(pte, Shl(One, 7)) = One

\* PageTableEntry::is_leaf: value & 0b1110 > 0
is_leaf(pte) == Gt(BitAnd(pte, {1, 2, 3}), Zero)

\* PageTableEntry::physical_page: (value >> 10) & ((1 << 44) - 1)
physical_page(pte) == BitAnd(Shr(pte, 10), LowMask(44))

PageTableEntryMode ==
    {"PageTablePointer", "ReadOnly", "ReadWrite", "ExecuteOnly", "ReadExecute",
     "ReadWriteExecute"}

\* PageTableEntryBuilder::new
PageTableEntryBuilder_new(page_number, mode) ==
    [mode |-> mode, user |-> FALSE, global |-> FALSE, page_number |-> page_number,
     invalid |-> None]

\* PageTableEntryBuilder::invalid
PageTableEntryBuilder_invalid(value) ==
    [mode |-> "PageTablePointer", user |-> FALSE, global |-> FALSE,
     page_number |-> Zero, invalid |-> Some(BitAnd(value, Sub(Bits, One)))]

\* The permission bits the match on b.mode sets.
ModeBits(mode) ==
    CASE mode = "PageTablePointer" -> Zero
      [] mode = "ReadOnly" -> Shl(One, 1)
      [] mode = "ReadWrite" -> Add(Shl(One, 1), Shl(One, 2))
      [] mode = "ExecuteOnly" -> Shl(One, 3)
      [] mode = "ReadExecute" -> Add(Shl(One, 1), Shl(One, 3))
      [] mode = "ReadWriteExecute" -> Add(Add(Shl(One, 1), Shl(One, 2)), Shl(One, 3))

\* PageTableEntryBuilder::build, through From<PageTableEntryBuilder>
build(b) ==
    IF IsSome(b.invalid) THEN Unwrap(b.invalid)
    ELSE LET v1 == BitOr(One, ModeBits(b.mode))
             v2 == IF b.user THEN BitOr(v1, Shl(One, 4)) ELSE v1
             v3 == IF b.global THEN BitOr(v2, Shl(One, 5)) ELSE v2
         IN  BitOr(v3, Shl(Shr(b.page_number, 12), 10))

---------------------------------------------------------------------------
(* page_table.rs: PageTable *)

\* *page = Self { entries: [entry; 512] }
FillEntries(m, page, entry) ==
    IF page \notin DOMAIN m THEN m
    ELSE [m EXCEPT ![page] = IF entry = Zero THEN ZeroFrame
                             ELSE [i \in 0 .. 511 |-> entry]]

\* A variant of PageTable::new that fills the table with valid pointer
\* entries to frame 0.
PageTable_new_valid(fl, m) ==
    LET r == alloc(fl, m)
    IN  IF ~r.ok THEN r
        ELSE [r EXCEPT !.mem = FillEntries(r.mem, Unwrap(r.page),
                  build(PageTableEntryBuilder_new(Zero, "PageTablePointer")))]

\* The rest of PageTable::new once alloc()? has returned `r`: an error is
\* passed on, a frame is filled with the invalid entry.
PageTable_new_filled(r) ==
    IF ~r.ok THEN r
    ELSE [r EXCEPT !.mem = FillEntries(r.mem, Unwrap(r.page),
              build(PageTableEntryBuilder_invalid(Zero)))]

\* PageTable::new
PageTable_new(fl, m) == PageTable_new_filled(alloc(fl, m))

\* The address of entries[pte_idx] of the table at `table`.
EntryPtr(table, pte_idx) == Add(table, Shl(pte_idx, 3))

RECURSIVE do_walk(_, _, _, _)
\* PageTable::do_walk
do_walk(m, table, virt, level) ==
    LET pte_idx == page_table_index(virt, level)
        pte_ptr == EntryPtr(table, pte_idx)
        pte == Load(m, pte_ptr)
    IN  IF level = 0 THEN Some(pte_ptr)
        ELSE IF ~is_valid(pte) THEN None
        ELSE do_walk(m, Shl(physical_page(pte), 12), virt, level - 1)

\* PageTable::walk
walk(m, table, virt) == do_walk(m, table, virt, 2)

RECURSIVE do_walk_and_map_lost(_, _, _, _, _)
\* A variant of do_walk_and_map that allocates the next table without writing
\* the pointer entry into the table.
do_walk_and_map_lost(fl, m, table, virt, level) ==
    LET pte_idx == page_table_index(virt, level)
        pte_ptr == EntryPtr(table, pte_idx)
        pte == Load(m, pte_ptr)
    IN  IF level = 0
        THEN [ok |-> TRUE, err |-> "", slot |-> Some(pte_ptr), free_list |-> fl,
              mem |-> m]
        ELSE IF ~is_valid(pte)
        THEN LET r == alloc(fl, m)
             IN  IF ~r.ok
                 THEN [ok |-> FALSE, err |-> r.err, slot |-> None,
                       free_list |-> r.free_list, mem |-> r.mem]
                 ELSE do_walk_and_map_lost(r.free_list, r.mem, Unwrap(r.page), virt,
                                           level - 1)
        ELSE do_walk_and_map_lost(fl, m, Shl(physical_page(pte), 12), virt, level - 1)

RECURSIVE do_walk_and_map_always(_, _, _, _, _)
\* A variant of do_walk_and_map that allocates a new table at every
\* intermediate level, whether the entry is valid or not.
do_walk_and_map_always(fl, m, table, virt, level) ==
    LET pte_idx == page_table_index(virt, level)
        pte_ptr == EntryPtr(table, pte_idx)
    IN  IF level = 0
        THEN [ok |-> TRUE, err |-> "", slot |-> Some(pte_ptr), free_list |-> fl,
              mem |-> m]
        ELSE LET r == alloc(fl, m)
             IN  IF ~r.ok
                 THEN [ok |-> FALSE, err |-> r.err, slot |-> None,
                       free_list |-> r.free_list, mem |-> r.mem]
                 ELSE LET new_page == Unwrap(r.page)
                          entry == build(PageTableEntryBuilder_new(new_page,
                                                                   "PageTablePointer"))
                      IN  do_walk_and_map_always(r.free_list,
                                                 Store(r.mem, pte_ptr, entry),
                                                 new_page, virt, level - 1)

RECURSIVE do_walk_and_map(_, _, _, _, _)
\* The branch of do_walk_and_map for an invalid entry, once alloc()? has
\* returned `r`: the pointer entry is written at pte_ptr and the walk goes on
\* in the new table.
do_walk_and_map_new_table(r, pte_ptr, virt, level) ==
    IF ~r.ok
    THEN [ok |-> FALSE, err |-> r.err, slot |-> None, free_list |-> r.free_list,
          mem |-> r.mem]
    ELSE LET new_page == Unwrap(r.page)
             entry == build(PageTableEntryBuilder_new(new_page, "PageTablePointer"))
         IN  do_walk_and_map(r.free_list, Store(r.mem, pte_ptr, entry), new_page,
                             virt, level - 1)

\* PageTable::do_walk_and_map
do_walk_and_map(fl, m, table, virt, level) ==
    LET pte_idx == page_table_index(virt, level)
        pte_ptr == EntryPtr(table, pte_idx)
        pte == Load(m, pte_ptr)
    IN  IF level = 0
        THEN [ok |-> TRUE, err |-> "", slot |-> Some(pte_ptr), free_list |-> fl,
              mem |-> m]
        ELSE IF ~is_valid(pte)
        THEN do_walk_and_map_new_table(alloc(fl, m), pte_ptr, virt, level)
        ELSE do_walk_and_map(fl, m, Shl(physical_page(pte), 12), virt, level - 1)

\* A variant of walk_and_map that undoes what it did when it fails.
walk_and_map_rollback(fl, m, table, virt) ==
    LET r == do_walk_and_map(fl, m, table, virt, 2)
    IN  IF r.ok THEN r ELSE [r EXCEPT !.free_list = fl, !.mem = m]

\* PageTable::walk_and_map
walk_and_map(fl, m, table, virt) == do_walk_and_map(fl, m, table, virt, 2)

\* A variant of walk_effect that creates the missing tables, as walk_and_map
\* does.
walk_effect_mapping(fl, m, table, virt) ==
    LET r == walk_and_map(fl, m, table, virt)
    IN  [ret |-> r.slot, free_list |-> r.free_list, mem |-> r.mem]

\* PageTable::walk with what it leaves behind: it takes &mut self, and the
\* body of do_walk reads entries and writes nothing.
walk_effect(fl, m, table, virt) ==
    [ret |-> walk(m, table, virt), free_list |-> fl, mem |-> m]

---------------------------------------------------------------------------
(* page_table.rs: VirtualMemory *)

\* VirtualMemory::new: the root table, or the allocator's error
VirtualMemory_new(fl, m) == PageTable_new(fl, m)

\* A variant of map_to_entry that writes the leaf entry into entries[0] of the
\* level-0 table instead of the slot walk_and_map returned.
map_to_entry_first_slot(r, phys, mode) ==
    IF ~r.ok THEN [ok |-> FALSE, err |-> r.err, free_list |-> r.free_list,
                   mem |-> r.mem]
    ELSE [ok |-> TRUE, err |-> "", free_list |-> r.free_list,
          mem |-> Store(r.mem, BitAnd(Unwrap(r.slot), BitNot(LowMask(12))),
                        build(PageTableEntryBuilder_new(phys, mode)))]

\* The rest of map_to once walk_and_map(..)? has returned `r`: an error is
\* passed on, the slot is written with the leaf entry.
map_to_entry(r, phys, mode) ==
    IF ~r.ok THEN [ok |-> FALSE, err |-> r.err, free_list |-> r.free_list,
                   mem |-> r.mem]
    ELSE [ok |-> TRUE, err |-> "", free_list |-> r.free_list,
          mem |-> Store(r.mem, Unwrap(r.slot),
                        build(PageTableEntryBuilder_new(phys, mode)))]

\* VirtualMemory::map_to
map_to(fl, m, root, virt, phys, mode) ==
    map_to_entry(walk_and_map(fl, m, root, virt), phys, mode)

\* A variant of map that maps the frame at the head of the free list without
\* taking it from the allocator.
map_unallocated(fl, m, root, virt, mode) ==
    IF fl = None THEN [ok |-> FALSE, err |-> "NoPagesAvailable", free_list |-> fl,
                       mem |-> m, phys |-> None]
    ELSE LET r == map_to(fl, m, root, virt, Unwrap(fl), mode)
         IN  [ok |-> r.ok, err |-> r.err, free_list |-> r.free_list,
              mem |-> r.mem, phys |-> fl]

\* The rest of map once alloc()? has returned `a`: an error is passed on, the
\* frame is mapped with map_to.
map_frame(a, root, virt, mode) ==
    IF ~a.ok THEN [ok |-> FALSE, err |-> a.err, free_list |-> a.free_list,
                   mem |-> a.mem, phys |-> None]
    ELSE [phys |-> a.page]
             @@ map_to(a.free_list, a.mem, root, virt, Unwrap(a.page), mode)

\* VirtualMemory::map; `phys` is the frame it allocated for the page
map(fl, m, root, virt, mode) == map_frame(alloc(fl, m), root, virt, mode)

\* VirtualMemory::identity_map; unwrap() of a rejected address panics
identity_map(fl, m, root, phys, mode) ==
    LET v == try_from(phys)
    IN  IF ~v.ok THEN [ok |-> FALSE, err |-> "panic", free_list |-> fl, mem |-> m]
        ELSE map_to(fl, m, root, v.value, phys, mode)

\* VirtualMemory::translate
translate(m, root, virt) ==
    LET slot == walk(m, root, virt)
    IN  IF ~IsSome(slot) THEN None
        ELSE LET pte == Load(m, Unwrap(slot))
             IN  IF ~(is_leaf(pte) /\ is_valid(pte)) THEN None
                 ELSE Some(BitOr(Shl(physical_page(pte), 12), offset(virt)))

---------------------------------------------------------------------------
(* The address conversions on their own: a raw u64 is converted, and the     *)
(* address it gives is taken apart.                                          *)

\* The raw values converted: every combination of these low bits (offset
\* bits, the lowest and highest bit of each index, bit 38), under each of
\* these settings of bits 39-63.
LowSample == {0, 11, 12, 20, 21, 29, 30, 37, 38}

HighSample == {{}, 39 .. 63, {39}, {63}, 40 .. 63}

RawInputs == {lo \cup hi : lo \in SUBSET LowSample, hi \in HighSample}

InitAddr ==
    /\ raw \in RawInputs
    /\ pc = 0
    /\ locks = {}
    /\ last = [op |-> "input"]
    /\ free_list = None
    /\ mem = <<>>
    /\ root_table = None
    /\ heap = <<>>
    /\ allocated = {}
    /\ history = <<>>
    /\ lifo = <<>>

\* VirtualAddress::try_from(raw)
TryFrom ==
    /\ last.op = "input"
    /\ LET r == try_from(raw)
       IN  last' = [op |-> "try_from", ok |-> r.ok, err |-> r.err, value |-> r.value]
    /\ UNCHANGED <<free_list, mem, root_table, heap, allocated, history,
                   lifo, raw, pc, locks>>

\* page_table_index(2), page_table_index(1), page_table_index(0) and offset()
\* of the converted address
Decompose ==
    /\ last.op = "try_from" /\ last.ok
    /\ last' = [op |-> "decompose", value |-> last.value,
                idx |-> [level \in 0 .. 2 |-> page_table_index(last.value, level)],
                off |-> offset(last.value)]
    /\ UNCHANGED <<free_list, mem, root_table, heap, allocated, history,
                   lifo, raw, pc, locks>>

NextAddr == TryFrom \/ Decompose

SpecAddr == InitAddr /\ [][NextAddr]_vars

---------------------------------------------------------------------------
(* An address space over a small heap: VirtualMemory::new on a fresh         *)
(* allocator, then map, identity_map, walk_and_map, walk and translate in    *)
(* any order.                                                                *)

\* The raw values converted to the virtual addresses used: 0x8000_1000,
\* 0x8000_1123 (the same page, a non-zero offset) and 0x40_0000_1000 (bit 38
\* set).
VMRawInputs == {{12, 31}, {0, 1, 5, 8, 12, 31}, {12, 38}}

\* The frame-aligned physical addresses identity-mapped: the console window
\* 0x1000_0000 and 0x40_0000_0000 (bit 38 set).
PhysInputs == {{28}, {38}}

\* The modes mappings are made with: two leaf modes, and PageTablePointer.
VMModes == {"ReadWrite", "ReadExecute", "PageTablePointer"}

InitVM ==
    \E n \in 1 .. MaxVMFrames, junk \in InitialContents :
        \E range \in {heap_addresses(n)} :
        \E a \in {PageAllocator_new(range[1], range[2],
                                    [f \in PhysFrames(MaxVMFrames) |-> junk])} :
        \E vm \in {VirtualMemory_new(a.free_list, a.mem)} :
            /\ vm.ok
            /\ free_list = vm.free_list
            /\ mem = vm.mem
            /\ root_table = vm.page
            /\ heap = [start |-> range[1], end |-> range[2], frames |-> n]
            /\ allocated = {Unwrap(vm.page)}
            /\ history = [fresh |-> TRUE]
            /\ lifo = <<>>
            /\ last = [op |-> "new", ok |-> TRUE]
            /\ raw = Zero
            /\ pc = 0
            /\ locks = {}

\* What an operation of the address space leaves behind: the allocator, the
\* memory, and whether the root table is still as PageTable::new made it.
VMEffect(r) ==
    /\ free_list' = r.free_list
    /\ mem' = r.mem
    /\ allocated' = PhysFrames(heap.frames) \ FreeSet(r.free_list, r.mem)
    /\ history' = [history EXCEPT !.fresh = @ /\ r.mem = mem]
    /\ UNCHANGED <<root_table, heap, lifo, pc, locks>>

\* virtual_memory.map(r.try_into().unwrap(), mode)
Map(r, mode) ==
    /\ try_from(r).ok
    /\ \E virt \in {try_from(r).value} :
       \E res \in {map(free_list, mem, Unwrap(root_table), virt, mode)} :
           /\ VMEffect(res)
           /\ last' = [op |-> "map", ok |-> res.ok, err |-> res.err, virt |-> virt,
                       mode |-> mode, phys |-> res.phys,
                       fp_before |-> free_pages(free_list, mem)]
    /\ raw' = r

\* virtual_memory.identity_map(PageAddr { address: p }, mode)
IdentityMap(p, mode) ==
    /\ try_from(p).ok
    /\ \E res \in {identity_map(free_list, mem, Unwrap(root_table), p, mode)} :
           /\ VMEffect(res)
           /\ last' = [op |-> "identity_map", ok |-> res.ok, err |-> res.err,
                       virt |-> try_from(p).value, mode |-> mode, phys |-> Some(p),
                       fp_before |-> free_pages(free_list, mem)]
    /\ raw' = p

\* (*root_table).walk_and_map(r.try_into().unwrap(), &mut page_allocator)
WalkAndMap(r) ==
    /\ try_from(r).ok
    /\ \E virt \in {try_from(r).value} :
       \E res \in {walk_and_map(free_list, mem, Unwrap(root_table), virt)} :
           /\ VMEffect(res)
           /\ last' = [op |-> "walk_and_map", ok |-> res.ok, err |-> res.err,
                       virt |-> virt, slot |-> res.slot,
                       fp_before |-> free_pages(free_list, mem)]
    /\ raw' = r

\* (*root_table).walk(r.try_into().unwrap())
Walk(r) ==
    /\ try_from(r).ok
    /\ \E virt \in {try_from(r).value} :
       \E w \in {walk_effect(free_list, mem, Unwrap(root_table), virt)} :
           /\ free_list' = w.free_list
           /\ mem' = w.mem
           /\ last' = [op |-> "walk", ok |-> TRUE, virt |-> virt, ret |-> w.ret]
    /\ raw' = r
    /\ UNCHANGED <<root_table, heap, allocated, history, lifo, pc, locks>>

\* virtual_memory.translate(r.try_into().unwrap()): the walk, then the read
\* of the entry
Translate(r) ==
    /\ try_from(r).ok
    /\ \E virt \in {try_from(r).value} :
       \E w \in {walk_effect(free_list, mem, Unwrap(root_table), virt)} :
           /\ free_list' = w.free_list
           /\ mem' = w.mem
           /\ last' = [op |-> "translate", ok |-> TRUE, virt |-> virt,
                       ret |-> translate(w.mem, Unwrap(root_table), virt)]
    /\ raw' = r
    /\ UNCHANGED <<root_table, heap, allocated, history, lifo, pc, locks>>

NextVM ==
    \/ \E r \in VMRawInputs, mode \in VMModes : Map(r, mode)
    \/ \E p \in PhysInputs, mode \in VMModes : IdentityMap(p, mode)
    \/ \E r \in VMRawInputs : WalkAndMap(r)
    \/ \E r \in VMRawInputs : Walk(r)
    \/ \E r \in VMRawInputs : Translate(r)

SpecVM == InitVM /\ [][NextVM]_vars

---------------------------------------------------------------------------
(* Claims about the address types *)

\* C5: try_from accepts raw exactly when bits 39-63 all equal bit 38, and
\* then keeps it unchanged: bit 38 set under zero high bits is rejected, the
\* same value sign-extended is accepted.
C5_AcceptsCanonical ==
    last.op = "try_from" =>
        /\ last.ok <=> \A i \in 39 .. 63 : (i \in raw) = (38 \in raw)
        /\ last.ok => last.value = raw

\* C6: for a converted address v, offset() is the low 12 bits of v,
\* page_table_index(level) is bits 12 + 9 * level .. 20 + 9 * level, and the
\* three indexes and the offset rebuild v.
C6_RoundTrip ==
    last.op = "decompose" =>
        /\ last.off = BitAnd(last.value, LowMask(12))
        /\ \A level \in 0 .. 2 :
               last.idx[level] =
                   {i - (12 + 9 * level) :
                       i \in last.value \cap ((12 + 9 * level) .. (20 + 9 * level))}
        /\ LET low == BitOr(BitOr(Shl(last.idx[2], 30), Shl(last.idx[1], 21)),
                             BitOr(Shl(last.idx[0], 12), last.off))
           IN  last.value = IF 38 \in low THEN BitOr(low, 39 .. 63) ELSE low

---------------------------------------------------------------------------
(* Claims about the page tables and the address space *)

\* C7: after a successful map(v, ReadWrite), translate(v) is a physical
\* address whose bits 12 and above are the frame map allocated for v and
\* whose low 12 bits are the low 12 bits of v.
C7_MapThenTranslate ==
    (last.op = "map" /\ last.ok /\ last.mode = "ReadWrite") =>
        LET t == translate(mem, Unwrap(root_table), last.virt)
        IN  /\ IsSome(t)
            /\ BitAnd(Unwrap(t), BitNot(LowMask(12))) = Unwrap(last.phys)
            /\ BitAnd(Unwrap(t), LowMask(12)) = BitAnd(last.virt, LowMask(12))

\* C8: after a successful identity_map(p, mode) with a leaf mode, translate
\* of p converted to a virtual address is exactly p.
C8_IdentityMapThenTranslate ==
    (last.op = "identity_map" /\ last.ok /\ last.mode # "PageTablePointer") =>
        translate(mem, Unwrap(root_table), last.virt) = last.phys

\* C9: after a successful walk_and_map(v), walk(v) finds the level-0 entry
\* slot that walk_and_map returned: an entry of the same table frame at the
\* index page_table_index(0) of v.
C9_WalkAgreesWithWalkAndMap ==
    (last.op = "walk_and_map" /\ last.ok) =>
        /\ IsSome(last.slot)
        /\ walk(mem, Unwrap(root_table), last.virt) = last.slot
        /\ Shr(BitAnd(Unwrap(last.slot), LowMask(12)), 3) =
               page_table_index(last.virt, 0)

\* walk_and_map installed both intermediate tables, and walk finds its slot.
C9_Witness ==
    /\ last.op = "walk_and_map" /\ last.ok
    /\ free_pages(free_list, mem) = last.fp_before - 2
    /\ walk(mem, Unwrap(root_table), last.virt) = last.slot

\* C10: a root table as PageTable::new made it has all 512 entries invalid,
\* and walk on it returns None for every virtual address.
C10_FreshTableIsEmpty ==
    history.fresh =>
        /\ \A i \in 0 .. 511 :
               ~is_valid(Load(mem, EntryPtr(Unwrap(root_table), FromNat(i))))
        /\ \A r \in RawInputs :
               try_from(r).ok =>
                   walk(mem, Unwrap(root_table), try_from(r).value) = None
        /\ last.op = "walk" => last.ret = None

\* walk was called on the table as PageTable::new made it, and found nothing.
C10_Witness ==
    /\ history.fresh
    /\ last.op = "walk" /\ last.ret = None /\ last.virt # Zero

\* C16: in every state reached through new, map, identity_map with any mode,
\* every valid entry at level 2 or level 1 has R, W and X clear and points to
\* the frame of a page table obtained from the allocator, and every valid
\* entry at level 0 has at least one of R, W, X set.
C16_EntriesWellFormed ==
    LET ValidEntries(t) ==
            IF t \in DOMAIN mem
            THEN {mem[t][w] : w \in {x \in DOMAIN mem[t] : is_valid(mem[t][x])}}
            ELSE {}
        Next(e) == Shl(physical_page(e), 12)
        level2 == ValidEntries(Unwrap(root_table))
        level1 == UNION {ValidEntries(Next(e)) : e \in level2}
        level0 == UNION {ValidEntries(Next(e)) : e \in level1}
    IN  /\ \A e \in level2 \cup level1 :
               /\ e \cap {1, 2, 3} = {}
               /\ Next(e) \in allocated \ {Unwrap(root_table)}
        /\ \A e \in level0 : e \cap {1, 2, 3} # {}

\* C18: walk(v) is a pure lookup: whether it returns a slot or None, it leaves
\* the free list, the free-frame count and the contents of every page table
\* unchanged; translate(v) changes nothing either.
C18_WalkIsPure ==
    [][last'.op \in {"walk", "translate"} =>
           /\ free_list' = free_list
           /\ mem' = mem
           /\ free_pages(free_list', mem') = free_pages(free_list, mem)
           /\ root_table' = root_table]_vars

\* walk found a slot in a table that has mappings.
C18_Witness ==
    /\ last.op = "walk" /\ IsSome(last.ret)
    /\ ~history.fresh

\* C19: when walk_and_map(v) fails with NoPagesAvailable after it has
\* installed an intermediate table, the table and its PageTablePointer entry
\* stay installed and its frame stays off the free list; the path of v then
\* lacks correspondingly fewer tables, and translate of every address returns
\* what it returned before the call.
C19_NoRollback ==
    [][(last'.op = "walk_and_map" /\ ~last'.ok /\ free_list # None) =>
           LET root == Unwrap(root_table)
               v == last'.virt
               Entry2(m) == Load(m, EntryPtr(root, page_table_index(v, 2)))
               Entry1(m) == Load(m, EntryPtr(Shl(physical_page(Entry2(m)), 12),
                                             page_table_index(v, 1)))
               Missing(m) == IF ~is_valid(Entry2(m)) THEN 2
                             ELSE IF ~is_valid(Entry1(m)) THEN 1 ELSE 0
               taken == allocated' \ allocated
           IN  /\ last'.err = "NoPagesAvailable"
               /\ free_list' = None
               /\ allocated' = PhysFrames(heap.frames)
               /\ taken # {} /\ FreeSet(free_list, mem) = taken
               /\ Missing(mem') = Missing(mem) - Cardinality(taken)
               /\ is_valid(Entry2(mem')) /\ ~is_leaf(Entry2(mem'))
               /\ Shl(physical_page(Entry2(mem')), 12) \in taken
               /\ \A r \in (SUBSET {0, 12, 21, 30, 31, 38}) \cup VMRawInputs :
                      translate(mem', root, try_from(r).value) =
                          translate(mem, root, try_from(r).value)]_vars

\* walk_and_map failed after taking the last free frame for a table, which is
\* installed in the root table.
C19_Witness ==
    /\ last.op = "walk_and_map" /\ ~last.ok /\ last.fp_before = 1
    /\ free_list = None
    /\ is_valid(Load(mem, EntryPtr(Unwrap(root_table),
                                   page_table_index(last.virt, 2))))

\* C20: a successful walk_and_map(v) takes from the allocator exactly one
\* frame per invalid level-2 or level-1 entry on the path of v: 2 on a fresh
\* root table, at most 2, and 0 when repeated; each frame is zero-filled
\* before it is used as a table; a successful map(v, mode) takes exactly one
\* frame more, at most 3.
C20_FramesTaken ==
    [][(last'.op \in {"walk_and_map", "map"} /\ last'.ok) =>
           LET root == Unwrap(root_table)
               v == last'.virt
               Entry2(m) == Load(m, EntryPtr(root, page_table_index(v, 2)))
               Entry1(m) == Load(m, EntryPtr(Shl(physical_page(Entry2(m)), 12),
                                             page_table_index(v, 1)))
               Missing(m) == IF ~is_valid(Entry2(m)) THEN 2
                             ELSE IF ~is_valid(Entry1(m)) THEN 1 ELSE 0
               taken == allocated' \ allocated
               extra == IF last'.op = "map" THEN 1 ELSE 0
           IN  /\ allocated \subseteq allocated'
               /\ Cardinality(taken) = Missing(mem) + extra
               /\ Cardinality(taken) <= 2 + extra
               /\ history.fresh => Cardinality(taken) = 2 + extra
               /\ Missing(mem') = 0
               /\ walk_and_map(free_list', mem', root, v)
                      = [ok |-> TRUE, err |-> "", slot |-> walk(mem', root, v),
                         free_list |-> free_list', mem |-> mem']
               /\ \A t \in taken :
                      DOMAIN mem'[t] \subseteq {ToNat(page_table_index(v, 1)),
                                                ToNat(page_table_index(v, 0))}]_vars

\* map succeeded on a fresh root table and took three frames: two tables and
\* the target.
C20_Witness ==
    /\ last.op = "map" /\ last.ok
    /\ free_pages(free_list, mem) = last.fp_before - 3

\* C23: without dealloc no frame is handed out twice.  After every map,
\* identity_map and walk_and_map call the free list has only lost frames; the
\* root table and the tables the valid level-2 and level-1 entries point to
\* are pairwise distinct (one frame per pointer entry), off the free list, and
\* every new one came from the free list; the tables of before are still
\* tables; the frame a successful map allocated as its target came off the
\* free list, is no table, and is not the target of any other mapping of a
\* heap frame, which are pairwise distinct as well.
C23_FramesHandedOutOnce ==
    [][last'.op \in {"map", "identity_map", "walk_and_map"} =>
           LET root == Unwrap(root_table)
               Slots(m, t) == IF t \in DOMAIN m
                              THEN {w \in DOMAIN m[t] : is_valid(m[t][w])}
                              ELSE {}
               Frame(m, p) == Shl(physical_page(m[p[1]][p[2]]), 12)
               Ptr2(m) == {<<root, w>> : w \in Slots(m, root)}
               Ptr1(m) == UNION {{<<Frame(m, p), w>> : w \in Slots(m, Frame(m, p))} :
                                    p \in Ptr2(m)}
               Ptr0(m) == UNION {{<<Frame(m, p), w>> : w \in Slots(m, Frame(m, p))} :
                                    p \in Ptr1(m)}
               Tables(m) == {root} \cup {Frame(m, p) : p \in Ptr2(m) \cup Ptr1(m)}
               HeapLeaves(m) == {p \in Ptr0(m) : Frame(m, p) \in PhysFrames(heap.frames)}
               free == FreeSet(free_list, mem)
               free2 == FreeSet(free_list', mem')
               target == IF last'.op = "map" /\ last'.ok
                         THEN {Unwrap(last'.phys)} ELSE {}
               slot == {p \in Ptr0(mem') :
                           /\ last'.op = "map" /\ last'.ok
                           /\ walk(mem', root, last'.virt)
                                  = Some(EntryPtr(p[1], FromNat(p[2])))}
           IN  /\ free2 \subseteq free
               /\ Cardinality(Tables(mem'))
                      = 1 + Cardinality(Ptr2(mem')) + Cardinality(Ptr1(mem'))
               /\ Tables(mem') \cap free2 = {}
               /\ Tables(mem) \subseteq Tables(mem')
               /\ (Tables(mem') \ Tables(mem)) \subseteq free
               /\ target \subseteq free \ free2
               /\ target \cap Tables(mem') = {}
               /\ \A p \in HeapLeaves(mem') :
                      /\ Frame(mem', p) \notin Tables(mem') \cup free2
                      /\ \A q \in HeapLeaves(mem') :
                             Frame(mem', q) = Frame(mem', p) => q = p
               /\ \A p \in HeapLeaves(mem') \ slot :
                      Frame(mem', p) \notin target]_vars

\* map succeeded on a fresh address space: the root, two new tables and the
\* target are four frames.
C23_Witness ==
    /\ last.op = "map" /\ last.ok
    /\ Cardinality(allocated) = 4
    /\ Unwrap(last.phys) \in allocated

\* C24: a map(v, mode) or identity_map(p, mode) call, whether it succeeds or
\* fails, leaves translate(w) as it was for every address w outside the page
\* of v (of p), also for w whose path shares the tables of v.  (translate
\* reads memory only, so a call that leaves memory as it was changes nothing.)
C24_OtherPagesUntouched ==
    [][last'.op \in {"map", "identity_map"} =>
           LET root == Unwrap(root_table)
               v == last'.virt
               Flip(a, b) == (a \ {b}) \cup ({b} \ a)
               \* every address used, and its neighbours: the next page in
               \* the same level-0 table, in the same level-1 table, and
               \* under the same root only
               Sample == UNION {{a, Flip(a, 12), Flip(a, 21), Flip(a, 30)} :
                                   a \in VMRawInputs \cup PhysInputs}
           IN  \/ mem' = mem
               \/ \A r \in Sample :
                      (\E level \in 0 .. 2 :
                           page_table_index(try_from(r).value, level)
                               # page_table_index(v, level))
                          => translate(mem', root, try_from(r).value)
                                 = translate(mem, root, try_from(r).value)]_vars

\* A mapping was made in a level-0 table that holds the mapping of another
\* page, which still translates.
C24_Witness ==
    /\ last.op \in {"map", "identity_map"} /\ last.ok
    /\ \E r \in VMRawInputs \cup PhysInputs :
           /\ page_table_index(try_from(r).value, 0) # page_table_index(last.virt, 0)
           /\ page_table_index(try_from(r).value, 1) = page_table_index(last.virt, 1)
           /\ page_table_index(try_from(r).value, 2) = page_table_index(last.virt, 2)
           /\ IsSome(translate(mem, Unwrap(root_table), try_from(r).value))

---------------------------------------------------------------------------
(* trap.rs: TrapCause *)

\* The arms of the match for an interrupt (first component 1).
InterruptArms(exception_code) ==
    CASE exception_code = FromNat(1) -> "SoftwareInterrupt"
      [] exception_code = FromNat(5) -> "TimerInterrupt"
      [] exception_code = FromNat(9) -> "ExternalInterrupt"
      [] OTHER -> IF Gt(FromNat(16), exception_code) THEN "ReservedInterrupt"
                  ELSE "PlatformInterrupt"

\* The arms of the match for an exception (first component 0).
ExceptionArms(exception_code) ==
    CASE exception_code = FromNat(0) -> "InstructionAddressMisaligned"
      [] exception_code = FromNat(1) -> "InstructionAccessFault"
      [] exception_code = FromNat(2) -> "IllegalInstruction"
      [] exception_code = FromNat(3) -> "Breakpoint"
      [] exception_code = FromNat(4) -> "LoadAddressMisaligned"
      [] exception_code = FromNat(5) -> "LoadAccessFault"
      [] exception_code = FromNat(6) -> "StoreAddressMisaligned"
      [] exception_code = FromNat(7) -> "StoreAccessFault"
      [] exception_code = FromNat(8) -> "UserEnvironmentCall"
      [] exception_code = FromNat(9) -> "SupervisorEnvironmentCall"
      [] exception_code = FromNat(12) -> "InstructionPageFault"
      [] exception_code = FromNat(13) -> "LoadPageFault"
      [] exception_code = FromNat(15) -> "StorePageFault"
      [] OTHER ->
            IF ~Gt(FromNat(24), exception_code) /\ ~Gt(exception_code, FromNat(31))
            THEN "CustomException"
            ELSE IF ~Gt(FromNat(48), exception_code)
                    /\ ~Gt(exception_code, FromNat(63))
            THEN "CustomException"
            ELSE "ReservedException"

\* impl From<u64> for TrapCause: the first component of the match is
\* val & (1 << 63), compared with the literals 1 and 0; the last arm panics.
TrapCause_from(val) ==
    LET interrupt_bit == BitAnd(val, Shl(One, 63))
        exception_code == BitAnd(val, LowMask(63))
    IN  IF interrupt_bit = One
        THEN [ok |-> TRUE, cause |-> InterruptArms(exception_code)]
        ELSE IF interrupt_bit = Zero
        THEN [ok |-> TRUE, cause |-> ExceptionArms(exception_code)]
        ELSE [ok |-> FALSE, cause |-> "panic"]

---------------------------------------------------------------------------
(* The trap classifier on its own: a raw cause value is classified.          *)

\* The largest exception code below 2^7 classified, with and without the
\* interrupt flag.
MaxTrapCode == 70

\* The raw cause values: every code up to MaxTrapCode, and these codes with
\* a high bit set (1 << 32, 1 << 62, and 5 under 1 << 62), each with the
\* interrupt flag clear and set.
TrapInputs ==
    LET codes == {FromNat(c) : c \in 0 .. MaxTrapCode} \cup {{32}, {62}, {0, 2, 62}}
    IN  codes \cup {c \cup {63} : c \in codes}

InitTrap ==
    /\ raw \in TrapInputs
    /\ pc = 0
    /\ locks = {}
    /\ last = [op |-> "input"]
    /\ free_list = None
    /\ mem = <<>>
    /\ root_table = None
    /\ heap = <<>>
    /\ allocated = {}
    /\ history = <<>>
    /\ lifo = <<>>

\* let cause: TrapCause = cause.into()
Classify ==
    /\ last.op = "input"
    /\ LET r == TrapCause_from(raw)
       IN  last' = [op |-> "from", ok |-> r.ok, cause |-> r.cause]
    /\ UNCHANGED <<free_list, mem, root_table, heap, allocated, history,
                   lifo, raw, pc, locks>>

NextTrap == Classify

SpecTrap == InitTrap /\ [][NextTrap]_vars

---------------------------------------------------------------------------
(* Claims about the trap classifier *)

\* C11: for every raw cause value the classifier returns, without aborting,
\* the category of the table: bit 63 is the interrupt flag and bits 0-62 the
\* code; with the flag set, codes 1/5/9 are Software/Timer/ExternalInterrupt,
\* other codes below 16 ReservedInterrupt, all others PlatformInterrupt; with
\* the flag clear, codes 0-9, 12, 13, 15 are the named exceptions, 24-31 and
\* 48-63 CustomException, every other code ReservedException.
C11_TrapTable ==
    last.op = "from" =>
        LET code == raw \ {63}
            small == code \subseteq 0 .. 6
            n == IF small THEN ToNat(code) ELSE 127
            named == <<"InstructionAddressMisaligned", "InstructionAccessFault",
                       "IllegalInstruction", "Breakpoint", "LoadAddressMisaligned",
                       "LoadAccessFault", "StoreAddressMisaligned", "StoreAccessFault",
                       "UserEnvironmentCall", "SupervisorEnvironmentCall",
                       "ReservedException", "ReservedException",
                       "InstructionPageFault", "LoadPageFault", "ReservedException",
                       "StorePageFault">>
            expected ==
                IF 63 \in raw
                THEN CASE n = 1 -> "SoftwareInterrupt"
                       [] n = 5 -> "TimerInterrupt"
                       [] n = 9 -> "ExternalInterrupt"
                       [] OTHER -> IF n < 16 THEN "ReservedInterrupt"
                                   ELSE "PlatformInterrupt"
                ELSE IF n < 16 THEN named[n + 1]
                ELSE IF n \in 24 .. 31 \/ n \in 48 .. 63 THEN "CustomException"
                ELSE "ReservedException"
        IN  last.ok /\ last.cause = expected

---------------------------------------------------------------------------
(* Page table entries on their own: an entry is taken as a raw value, or     *)
(* built by the builder from a frame address, and its accessors are read.    *)

\* The flag bits of an entry, all combinations of which are read.
FlagSample == 0 .. 7

\* Settings of the bits above the flags: none, the lowest and highest bit of
\* the physical page field, the reserved bits, and two frame addresses
\* (0x1000 and 0x8000_1000).
FieldSample == {{}, {10}, {53}, {54, 63}, {12}, {12, 31}}

EntryInputs == {lo \cup hi : lo \in SUBSET FlagSample, hi \in FieldSample}

InitEntry ==
    /\ raw \in EntryInputs
    /\ pc = 0
    /\ locks = {}
    /\ last = [op |-> "input"]
    /\ free_list = None
    /\ mem = <<>>
    /\ root_table = None
    /\ heap = <<>>
    /\ allocated = {}
    /\ history = <<>>
    /\ lifo = <<>>

\* PageTableEntryBuilder::new(raw, mode), with user_accessible() and
\* global_mapping() or without, then build()
BuildEntry(mode, user, global) ==
    /\ last.op = "input"
    /\ BitAnd(raw, LowMask(12)) = Zero
    /\ raw' = build([PageTableEntryBuilder_new(raw, mode) EXCEPT
                        !.user = user, !.global = global])
    /\ last' = [op |-> "build", mode |-> mode, user |-> user, global |-> global,
                page_number |-> raw]
    /\ UNCHANGED <<free_list, mem, root_table, heap, allocated, history,
                   lifo, pc, locks>>

\* Every accessor of the entry whose value is raw
Inspect ==
    /\ last.op \in {"input", "build"}
    /\ last' = [op |-> "inspect", entry |-> last,
                is_valid |-> is_valid(raw),
                is_readable |-> is_readable(raw),
                is_writable |-> is_writable(raw),
                is_executable |-> is_executable(raw),
                is_leaf |-> is_leaf(raw),
                is_user_accessible |-> is_user_accessible(raw),
                is_global |-> is_global(raw),
                has_been_accessed |-> has_been_accessed(raw),
                is_dirty |-> is_dirty(raw),
                physical_page |-> physical_page(raw)]
    /\ UNCHANGED <<free_list, mem, root_table, heap, allocated, history,
                   lifo, raw, pc, locks>>

NextEntry ==
    \/ \E mode \in PageTableEntryMode, user \in BOOLEAN, global \in BOOLEAN :
           BuildEntry(mode, user, global)
    \/ Inspect

SpecEntry == InitEntry /\ [][NextEntry]_vars

---------------------------------------------------------------------------
(* Claims about page table entries *)

\* C12: every accessor reports the bit of the layout: is_valid bit 0,
\* is_readable bit 1, is_writable bit 2, is_executable bit 3,
\* is_user_accessible bit 4, is_global bit 5, has_been_accessed bit 6,
\* is_dirty bit 7, physical_page bits 10-53, is_leaf any of bits 1-3; an entry
\* built with mode ReadWrite reports is_readable and is_writable.
C12_AccessorsReportLayout ==
    last.op = "inspect" =>
        /\ last.is_valid = (0 \in raw)
        /\ last.is_readable = (1 \in raw)
        /\ last.is_writable = (2 \in raw)
        /\ last.is_executable = (3 \in raw)
        /\ last.is_user_accessible = (4 \in raw)
        /\ last.is_global = (5 \in raw)
        /\ last.has_been_accessed = (6 \in raw)
        /\ last.is_dirty = (7 \in raw)
        /\ last.physical_page = {i - 10 : i \in raw \cap (10 .. 53)}
        /\ last.is_leaf = (raw \cap {1, 2, 3} # {})
        /\ (last.entry.op = "build" /\ last.entry.mode = "ReadWrite") =>
               last.is_readable /\ last.is_writable

---------------------------------------------------------------------------
(* page_table.rs: VirtualMemory::init, and lib.rs: initialise_kernel *)

\* The pages of PageRange::new(start, end), each to be mapped with `mode`;
\* `seg` names the loop the call is made in.
SegmentSteps(segment, mode, seg) ==
    LET pages == PageRange(segment[1], segment[2])
    IN  [i \in DOMAIN pages |-> [page |-> pages[i], mode |-> mode, seg |-> seg]]

\* A variant of InitSteps that maps the read-only data read+write.
InitSteps_rodata_rw(env) ==
    SegmentSteps(env.text, "ReadExecute", "text")
        \o SegmentSteps(env.rodata, "ReadWrite", "rodata")
        \o SegmentSteps(env.data, "ReadWrite", "data")
        \o SegmentSteps(env.bss, "ReadWrite", "bss")
        \o SegmentSteps(env.stack, "ReadWrite", "stack")
        \o SegmentSteps(env.heap, "ReadWrite", "heap")
        \o <<[page |-> {28}, mode |-> "ReadWrite", seg |-> "console"],
             [page |-> {20}, mode |-> "ReadWrite", seg |-> "timer"]>>

\* The identity_map calls init makes when none fails, in order: the six
\* loops over the segments, then the two fixed windows.
InitSteps(env) ==
    SegmentSteps(env.text, "ReadExecute", "text")
        \o SegmentSteps(env.rodata, "ReadOnly", "rodata")
        \o SegmentSteps(env.data, "ReadWrite", "data")
        \o SegmentSteps(env.bss, "ReadWrite", "bss")
        \o SegmentSteps(env.stack, "ReadWrite", "stack")
        \o SegmentSteps(env.heap, "ReadWrite", "heap")
        \o <<[page |-> {28}, mode |-> "ReadWrite", seg |-> "console"],
             [page |-> {20}, mode |-> "ReadWrite", seg |-> "timer"]>>

RECURSIVE MapSteps_continue(_, _, _, _, _)
\* A variant of MapSteps that goes on to the next mapping after a failed one
\* and reports the result of the last.
MapSteps_continue(steps, fl, m, root, done) ==
    IF steps = <<>>
    THEN [ok |-> TRUE, err |-> "", free_list |-> fl, mem |-> m, done |-> done]
    ELSE LET r == identity_map(fl, m, root, Head(steps).page, Head(steps).mode)
         IN  IF ~r.ok /\ Len(steps) = 1
             THEN [ok |-> FALSE, err |-> r.err, free_list |-> r.free_list,
                   mem |-> r.mem, done |-> done]
             ELSE MapSteps_continue(Tail(steps), r.free_list, r.mem, root,
                                    IF r.ok THEN Append(done, Head(steps)) ELSE done)

RECURSIVE MapSteps(_, _, _, _, _)
\* The `?` after an identity_map call of init that returned `r`: an error is
\* returned at once, otherwise the remaining steps follow.
MapSteps_next(r, steps, root, done) ==
    IF ~r.ok
    THEN [ok |-> FALSE, err |-> r.err, free_list |-> r.free_list, mem |-> r.mem,
          done |-> done]
    ELSE MapSteps(Tail(steps), r.free_list, r.mem, root, Append(done, Head(steps)))

\* self.identity_map(page, mode)? for each step in turn: the first failure is
\* returned at once.  `done` lists the mappings that succeeded.
MapSteps(steps, fl, m, root, done) ==
    IF steps = <<>>
    THEN [ok |-> TRUE, err |-> "", free_list |-> fl, mem |-> m, done |-> done]
    ELSE MapSteps_next(identity_map(fl, m, root, Head(steps).page, Head(steps).mode),
                       steps, root, done)

\* VirtualMemory::init
init(fl, m, root, env) == MapSteps(InitSteps(env), fl, m, root, <<>>)

\* The range initialise_kernel gives to PageAllocator::new:
\* HEAP_START + PAGE_SIZE - (HEAP_START % PAGE_SIZE) and
\* HEAP_END - (HEAP_END % PAGE_SIZE) - 1
KernelHeapRange(heap_start, heap_end) ==
    <<Sub(Add(heap_start, PAGE_SIZE), BitAnd(heap_start, LowMask(12))),
      Sub(Sub(heap_end, BitAnd(heap_end, LowMask(12))), One)>>

---------------------------------------------------------------------------
(* Bring-up: initialise_kernel builds the allocator from the heap segment,   *)
(* creates the address space and calls init(); addresses are translated      *)
(* afterwards.                                                               *)

\* The address 0x8000_0000 + n
KernelAddr(n) == Add({31}, FromNat(n))

\* Segment bounds the linker may supply (text, rodata, data, bss, stack):
\* frame-aligned and apart; frame-aligned with each END the next START; and
\* unaligned, the text END lying in a later frame than the last
\* START + k * 4096 <= END.
BootLayouts ==
    {[text |-> <<KernelAddr(0), KernelAddr(4096)>>,
      rodata |-> <<KernelAddr(8192), KernelAddr(8192)>>,
      data |-> <<KernelAddr(12288), KernelAddr(12288)>>,
      bss |-> <<KernelAddr(16384), KernelAddr(16384)>>,
      stack |-> <<KernelAddr(20480), KernelAddr(24576)>>],
     [text |-> <<KernelAddr(0), KernelAddr(4096)>>,
      rodata |-> <<KernelAddr(4096), KernelAddr(8192)>>,
      data |-> <<KernelAddr(8192), KernelAddr(12288)>>,
      bss |-> <<KernelAddr(12288), KernelAddr(12288)>>,
      stack |-> <<KernelAddr(16384), KernelAddr(20480)>>],
     [text |-> <<KernelAddr(2048), KernelAddr(5120)>>,
      rodata |-> <<KernelAddr(8208), KernelAddr(8224)>>,
      data |-> <<KernelAddr(12288), KernelAddr(16383)>>,
      bss |-> <<KernelAddr(16388), KernelAddr(16392)>>,
      stack |-> <<KernelAddr(20480), KernelAddr(28671)>>]}

\* How far HEAP_END lies above the last frame boundary.
HeapEndOffsets == {0, 16}

\* The segment names, in the order of the loops of init.
SegmentNames == <<"text", "rodata", "data", "bss", "stack", "heap">>

\* Addresses looked up after init: both bounds of every segment, an address
\* 0x3c above each START, the two windows, and an address inside the first.
Probes(env) ==
    UNION {{env[SegmentNames[i]][1], env[SegmentNames[i]][2],
            Add(env[SegmentNames[i]][1], FromNat(60))} : i \in 1 .. 6}
        \cup {{28}, {20}, {2, 28}}

InitBoot ==
    \E n \in 0 .. MaxInitFrames, d \in HeapEndOffsets, layout \in BootLayouts :
        \E heap_end \in {Add(HeapFrame[1], FromNat(n * 4096 + d))} :
        \E range \in {KernelHeapRange(HEAP_START, heap_end)} :
        \E a \in {PageAllocator_new(range[1], range[2],
                                    [f \in PhysFrames(MaxInitFrames) |-> JunkFrame])} :
        \E vm \in {VirtualMemory_new(a.free_list, a.mem)} :
            /\ free_list = vm.free_list
            /\ mem = vm.mem
            /\ root_table = vm.page
            /\ heap = [start |-> range[1], end |-> range[2], frames |-> n,
                       env |-> [text |-> layout.text, rodata |-> layout.rodata,
                                data |-> layout.data, bss |-> layout.bss,
                                stack |-> layout.stack,
                                heap |-> <<HEAP_START, heap_end>>]]
            /\ allocated = IF vm.ok THEN {Unwrap(vm.page)} ELSE {}
            /\ history = [fresh |-> TRUE, init |-> "none", done |-> <<>>]
            /\ lifo = <<>>
            /\ last = [op |-> "new", ok |-> vm.ok, err |-> vm.err]
            /\ raw = Zero
            /\ pc = 0
            /\ locks = {}

\* vm.init(); VirtualMemory::new(..).unwrap() has passed
KernelInit ==
    /\ IsSome(root_table)
    /\ history.init = "none"
    /\ \E res \in {init(free_list, mem, Unwrap(root_table), heap.env)} :
           /\ free_list' = res.free_list
           /\ mem' = res.mem
           /\ allocated' = PhysFrames(heap.frames) \ FreeSet(res.free_list, res.mem)
           /\ history' = [fresh |-> history.fresh /\ res.mem = mem,
                          init |-> IF res.ok THEN "ok" ELSE res.err,
                          done |-> res.done]
           /\ last' = [op |-> "init", ok |-> res.ok, err |-> res.err,
                       fp_before |-> free_pages(free_list, mem)]
    /\ UNCHANGED <<root_table, heap, lifo, raw, pc, locks>>

\* vm.translate(a.try_into().unwrap()), as initialise_kernel does for
\* 0x8000003c once init has returned Ok
TranslateAfterInit(a) ==
    /\ history.init = "ok"
    /\ last.op \in {"init", "translate"}
    /\ try_from(a).ok
    /\ last' = [op |-> "translate", ok |-> TRUE, virt |-> try_from(a).value,
                ret |-> translate(mem, Unwrap(root_table), try_from(a).value)]
    /\ raw' = a
    /\ UNCHANGED <<free_list, mem, root_table, heap, allocated, history,
                   lifo, pc, locks>>

\* The virtual address mapped through the global address space: 0x9000_0000
\* (temp_test::read_virtual_address).
BootRawInputs == {{28, 31}}

\* The frame identity-mapped outside init: the console window 0x1000_0000.
BootPhysInputs == {{28}}

\* The modes of these mappings.
BootModes == {"ReadWrite", "PageTablePointer"}

\* vm.map(r.try_into().unwrap(), mode), before or after init
BootMap(r, mode) ==
    /\ IsSome(root_table)
    /\ Map(r, mode)

\* vm.identity_map(PageAddr { address: p }, mode), before or after init
BootIdentityMap(p, mode) ==
    /\ IsSome(root_table)
    /\ IdentityMap(p, mode)

NextBoot ==
    \/ KernelInit
    \/ \E a \in Probes(heap.env) : TranslateAfterInit(a)
    \/ \E r \in BootRawInputs, mode \in BootModes : BootMap(r, mode)
    \/ \E p \in BootPhysInputs, mode \in BootModes : BootIdentityMap(p, mode)

SpecBoot == InitBoot /\ [][NextBoot]_vars

---------------------------------------------------------------------------
(* Claims about bring-up *)

\* C13: after init() has returned success, every address in the range
\* [START, END] of each segment and in the two windows translates to itself.
C13_SegmentsTranslateToThemselves ==
    (history.init = "ok" /\ last.op \in {"init", "translate"}) =>
        /\ \A a \in Probes(heap.env) :
               translate(mem, Unwrap(root_table), try_from(a).value) = Some(a)
        /\ last.op = "translate" => last.ret = Some(raw)

\* C14 as stated: init maps in the order text, read-only data, data, BSS,
\* stack, heap, console window, timer window, and after a successful init the
\* leaf entries of the text segment carry read+execute and those of all the
\* other segments and windows, the read-only data included, read+write.
C14_OrderAndPermissionsAllReadWrite ==
    (history.init = "ok" /\ last.op \in {"init", "translate"}) =>
        LET done == history.done
            order == <<"text", "rodata", "data", "bss", "stack", "heap", "console",
                       "timer">>
            rank(seg) == CHOOSE k \in 1 .. 8 : order[k] = seg
            bits(seg) == IF seg = "text" THEN {1, 3} ELSE {1, 2}
            leaf(page) ==
                Load(mem, Unwrap(walk(mem, Unwrap(root_table), try_from(page).value)))
        IN  /\ \A i, j \in DOMAIN done :
                   i < j => rank(done[i].seg) <= rank(done[j].seg)
            /\ {done[i].seg : i \in DOMAIN done} = {order[k] : k \in 1 .. 8}
            /\ \A i \in DOMAIN done :
                   /\ is_valid(leaf(done[i].page))
                   /\ BitAnd(leaf(done[i].page), {1, 2, 3}) = bits(done[i].seg)

\* C14: init maps in the order text, read-only data, data, BSS, stack, heap,
\* console window, timer window, and after a successful init the leaf entry
\* of each frame carries the permission of the last mapping made of it:
\* read+execute for text, read-only for the read-only data, read+write for
\* data, BSS, stack, heap and both windows.
C14_OrderAndPermissions ==
    (history.init = "ok" /\ last.op \in {"init", "translate"}) =>
        LET done == history.done
            order == <<"text", "rodata", "data", "bss", "stack", "heap", "console",
                       "timer">>
            rank(seg) == CHOOSE k \in 1 .. 8 : order[k] = seg
            bits(seg) == CASE seg = "text" -> {1, 3}
                           [] seg = "rodata" -> {1}
                           [] OTHER -> {1, 2}
            leaf(page) ==
                Load(mem, Unwrap(walk(mem, Unwrap(root_table), try_from(page).value)))
            remapped(i) ==
                \E j \in DOMAIN done :
                    j > i /\ FrameOf(done[j].page) = FrameOf(done[i].page)
        IN  /\ \A i, j \in DOMAIN done :
                   i < j => rank(done[i].seg) <= rank(done[j].seg)
            /\ {done[i].seg : i \in DOMAIN done} = {order[k] : k \in 1 .. 8}
            /\ \A i \in DOMAIN done :
                   /\ is_valid(leaf(done[i].page))
                   /\ ~remapped(i) =>
                          BitAnd(leaf(done[i].page), {1, 2, 3}) = bits(done[i].seg)

\* init returned Ok after mapping a frame twice: for the text segment, then
\* for the read-only data, whose permission the leaf entry carries.
C14_Witness ==
    /\ history.init = "ok" /\ last.op = "init"
    /\ \E i, j \in DOMAIN history.done :
           /\ history.done[i].seg = "text" /\ history.done[j].seg = "rodata"
           /\ FrameOf(history.done[i].page) = FrameOf(history.done[j].page)
           /\ BitAnd(Load(mem, Unwrap(walk(mem, Unwrap(root_table),
                                           try_from(history.done[i].page).value))),
                     {1, 2, 3}) = {1}

\* C15: when a frame allocation fails inside VirtualMemory::new, map,
\* identity_map or init, the operation returns NoPagesAvailable (the spec's
\* NoFramesAvailable): it fails only on an exhausted allocator and never
\* aborts, a reported success has the mapping in place, and init makes no
\* mapping after the first failed one.
C15_AllocationFailurePropagates ==
    /\ last.op = "new" =>
           /\ last.ok <=> heap.frames >= 1
           /\ last.ok <=> IsSome(root_table)
           /\ ~last.ok => last.err = "NoPagesAvailable"
    /\ (last.op \in {"map", "identity_map", "init"} /\ ~last.ok) =>
           last.err = "NoPagesAvailable" /\ free_list = None
    /\ (last.op \in {"map", "identity_map"} /\ last.ok) =>
           LET slot == walk(mem, Unwrap(root_table), last.virt)
           IN  /\ IsSome(slot)
               /\ is_valid(Load(mem, Unwrap(slot)))
               /\ Shl(physical_page(Load(mem, Unwrap(slot))), 12) = Unwrap(last.phys)
    /\ last.op = "init" =>
           LET steps == InitSteps(heap.env)
           IN  /\ Len(history.done) <= Len(steps)
               /\ history.done = SubSeq(steps, 1, Len(history.done))
               /\ last.ok <=> history.done = steps

\* init failed on an exhausted allocator after it had made some mappings.
C15_Witness ==
    /\ last.op = "init" /\ ~last.ok /\ last.err = "NoPagesAvailable"
    /\ history.done # <<>>
    /\ free_list = None

\* C17 as stated: in every state reached through new, map, identity_map and
\* init, every frame on the free list is frame-aligned and is not the target
\* of any valid leaf entry.
C17_FreeFramesUnmapped ==
    IsSome(root_table) =>
        LET Entries(t) ==
                IF t \in DOMAIN mem
                THEN {mem[t][w] : w \in {x \in DOMAIN mem[t] : is_valid(mem[t][x])}}
                ELSE {}
            Next(e) == Shl(physical_page(e), 12)
            level2 == Entries(Unwrap(root_table))
            level1 == UNION {Entries(Next(e)) : e \in level2}
            level0 == UNION {Entries(Next(e)) : e \in level1}
        IN  \A f \in FreeSet(free_list, mem) :
                /\ BitAnd(f, LowMask(12)) = Zero
                /\ \A e \in level0 : Next(e) # f

\* C17: every frame on the free list is frame-aligned, and is the target of a
\* valid leaf entry only through an identity mapping of that frame
\* (identity_map, or init's mapping of the heap region): the page mapped to it
\* is the frame's own address.
C17_FreeFramesOnlyIdentityMapped ==
    IsSome(root_table) =>
        LET Slots(t) ==
                IF t \in DOMAIN mem
                THEN {w \in DOMAIN mem[t] : is_valid(mem[t][w])}
                ELSE {}
            Next(e) == Shl(physical_page(e), 12)
            root == Unwrap(root_table)
            Leaves ==
                {<<BitOr(BitOr(Shl(FromNat(i2), 30), Shl(FromNat(i1), 21)),
                         Shl(FromNat(i0), 12)), Next(mem[t0][i0])>> :
                    <<i2, i1, i0, t0>> \in
                        UNION {UNION {{<<i2, i1, i0, Next(mem[Next(mem[root][i2])][i1])>> :
                                          i0 \in Slots(Next(mem[Next(mem[root][i2])][i1]))} :
                                      i1 \in Slots(Next(mem[root][i2]))} :
                               i2 \in Slots(root)}}
        IN  \A f \in FreeSet(free_list, mem) :
                /\ BitAnd(f, LowMask(12)) = Zero
                /\ \A leaf \in Leaves : leaf[2] = f => leaf[1] = f

\* After init a frame is still on the free list, and is identity-mapped.
C17_Witness ==
    /\ history.init = "ok"
    /\ \E f \in FreeSet(free_list, mem) :
           LET slot == walk(mem, Unwrap(root_table), f)
           IN  /\ IsSome(slot)
               /\ is_valid(Load(mem, Unwrap(slot)))
               /\ Shl(physical_page(Load(mem, Unwrap(slot))), 12) = f

---------------------------------------------------------------------------
(* lib.rs, serial.rs and test.rs: initialise_kernel and the test that runs   *)
(* after it, one step at a time, with the two spin::Mutex statics            *)
(* VIRTUAL_MEMORY and QEMU_SERIAL.  A guard returned by lock() inside a       *)
(* statement is a temporary: it is dropped when the statement ends.           *)

\* The largest heap the step-by-step bring-up is given, in frames.
MaxKernelFrames == 9

\* One step of the hart.
Instr(op, arg) == [op |-> op, arg |-> arg]

\* _print(args): QEMU_SERIAL.lock().write_fmt(args).unwrap();
print(msg) ==
    <<Instr("lock", "QEMU_SERIAL"), Instr("write", msg),
      Instr("unlock", "QEMU_SERIAL")>>

\* println!(msg, <an expression on VIRTUAL_MEMORY.lock()>): the arguments are
\* evaluated first, and the guard lives until _print has returned.
print_locked(op, msg) ==
    <<Instr("lock", "VIRTUAL_MEMORY"), Instr(op, "")>>
        \o print(msg) \o <<Instr("unlock", "VIRTUAL_MEMORY")>>

\* A variant of initialise_kernel that binds the guard of
\* VIRTUAL_MEMORY.lock() to a name before set(vm), so that it lives to the end
\* of the function.
initialise_kernel_guard_kept ==
    print("enter init")
        \o <<Instr("PageAllocator::new", "")>>
        \o print("page allocator created")
        \o <<Instr("VirtualMemory::new", "")>>
        \o print("virtual memory created")
        \o <<Instr("init", "")>>
        \o print("virtual memory initialised")
        \o <<Instr("csr", "csrw satp")>>
        \o print("SATP written")
        \o <<Instr("lock", "VIRTUAL_MEMORY"), Instr("set", "")>>
        \o print_locked("translate", "Code is mapped to")
        \o print_locked("root_table", "Root table is at")
        \o <<Instr("csr", "csrr satp")>>
        \o print("SATP is")
        \o print("run")
        \o <<Instr("unlock", "VIRTUAL_MEMORY")>>

\* initialise_kernel, statement by statement
initialise_kernel ==
    print("enter init")
        \o <<Instr("PageAllocator::new", "")>>
        \o print("page allocator created")
        \o <<Instr("VirtualMemory::new", "")>>
        \o print("virtual memory created")
        \o <<Instr("init", "")>>
        \o print("virtual memory initialised")
        \o <<Instr("csr", "csrw satp")>>
        \o print("SATP written")
        \o <<Instr("lock", "VIRTUAL_MEMORY"), Instr("set", ""),
             Instr("unlock", "VIRTUAL_MEMORY")>>
        \o print_locked("translate", "Code is mapped to")
        \o print_locked("root_table", "Root table is at")
        \o <<Instr("csr", "csrr satp")>>
        \o print("SATP is")
        \o print("run")

\* temp_test::read_virtual_address: the map call runs inside the closure
\* given to get_mut().map, under the guard; then ptr.write(1) and ptr.read()
read_virtual_address ==
    <<Instr("lock", "VIRTUAL_MEMORY"), Instr("map", ""),
      Instr("unlock", "VIRTUAL_MEMORY"), Instr("ptr", "")>>

\* kernel_main and test_runner with the one test: Testable::run prints the
\* name, calls the test and prints [ok]; then exit_qemu.
kernel_main ==
    print("ohhai tester")
        \o print("Running 1 tests")
        \o print("read_virtual_address...")
        \o read_virtual_address
        \o print("[ok]")
        \o print("exiting...")
        \o <<Instr("halt", "")>>

\* test::panic_handler, then loop {}
panic_handler ==
    print("[failed]") \o print("Error") \o print("exiting...")
        \o <<Instr("halt", "")>>

\* What the hart executes: bring-up, then the test run; a panic continues at
\* the panic handler.
Program == initialise_kernel \o kernel_main \o panic_handler

PanicEntry == Len(initialise_kernel) + Len(kernel_main) + 1

\* The address initialise_kernel looks up: 0x8000003c
CodeProbe == {2, 3, 4, 5, 31}

\* The address the test maps: 0x90000000
TestAddress == {28, 31}

\* The step at the hart's position.
Fetch == Program[pc]

\* pc after a call whose Result is unwrapped
Unwrapped(ok) == IF ok THEN pc + 1 ELSE PanicEntry

InitKernel ==
    \E n \in 0 .. MaxKernelFrames, d \in HeapEndOffsets, layout \in BootLayouts :
        \E heap_end \in {Add(HeapFrame[1], FromNat(n * 4096 + d))} :
        \E range \in {KernelHeapRange(HEAP_START, heap_end)} :
            /\ free_list = None
            /\ mem = [f \in PhysFrames(MaxKernelFrames) |-> JunkFrame]
            /\ root_table = None
            /\ heap = [start |-> range[1], end |-> range[2], frames |-> n,
                       env |-> [text |-> layout.text, rodata |-> layout.rodata,
                                data |-> layout.data, bss |-> layout.bss,
                                stack |-> layout.stack,
                                heap |-> <<HEAP_START, heap_end>>]]
            /\ allocated = {}
            /\ history = [init |-> "none", cell |-> "empty", printed |-> <<>>,
                          phys |-> None]
            /\ lifo = <<>>
            /\ last = [op |-> "start", held |-> {}]
            /\ raw = Zero
            /\ pc = 1
            /\ locks = {}

\* Mutex::lock(): the hart spins while the mutex is locked; a mutex the hart
\* itself has locked never becomes free.
Acquire ==
    /\ Fetch.op = "lock"
    /\ IF Fetch.arg \in locks
       THEN /\ last' = [op |-> "spin", lock |-> Fetch.arg, held |-> locks]
            /\ UNCHANGED <<pc, locks>>
       ELSE /\ last' = [op |-> "lock", lock |-> Fetch.arg, held |-> locks]
            /\ locks' = locks \cup {Fetch.arg}
            /\ pc' = pc + 1
    /\ UNCHANGED <<free_list, mem, root_table, heap, allocated, history, lifo, raw>>

\* The guard is dropped.
Release ==
    /\ Fetch.op = "unlock"
    /\ locks' = locks \ {Fetch.arg}
    /\ pc' = pc + 1
    /\ last' = [op |-> "unlock", lock |-> Fetch.arg, held |-> locks]
    /\ UNCHANGED <<free_list, mem, root_table, heap, allocated, history, lifo, raw>>

\* write_fmt on the serial port
Write ==
    /\ Fetch.op = "write"
    /\ history' = [history EXCEPT !.printed = Append(@, Fetch.arg)]
    /\ pc' = pc + 1
    /\ last' = [op |-> "write", held |-> locks]
    /\ UNCHANGED <<free_list, mem, root_table, heap, allocated, lifo, raw, locks>>

\* let page_allocator = PageAllocator::new(..)
NewAllocator ==
    /\ Fetch.op = "PageAllocator::new"
    /\ \E a \in {PageAllocator_new(heap.start, heap.end, mem)} :
           /\ free_list' = a.free_list
           /\ mem' = a.mem
    /\ pc' = pc + 1
    /\ last' = [op |-> "PageAllocator::new", held |-> locks]
    /\ UNCHANGED <<root_table, heap, allocated, history, lifo, raw, locks>>

\* let mut vm = VirtualMemory::new(page_allocator).unwrap()
NewVirtualMemory ==
    /\ Fetch.op = "VirtualMemory::new"
    /\ \E vm \in {VirtualMemory_new(free_list, mem)} :
           /\ free_list' = vm.free_list
           /\ mem' = vm.mem
           /\ root_table' = vm.page
           /\ allocated' = IF vm.ok THEN {Unwrap(vm.page)} ELSE {}
           /\ pc' = Unwrapped(vm.ok)
           /\ last' = [op |-> "VirtualMemory::new", ok |-> vm.ok, held |-> locks]
    /\ UNCHANGED <<heap, history, lifo, raw, locks>>

\* vm.init().unwrap()
RunInit ==
    /\ Fetch.op = "init"
    /\ \E res \in {init(free_list, mem, Unwrap(root_table), heap.env)} :
           /\ free_list' = res.free_list
           /\ mem' = res.mem
           /\ allocated' = PhysFrames(heap.frames) \ FreeSet(res.free_list, res.mem)
           /\ history' = [history EXCEPT !.init = IF res.ok THEN "ok" ELSE res.err]
           /\ pc' = Unwrapped(res.ok)
           /\ last' = [op |-> "init", ok |-> res.ok, held |-> locks]
    /\ UNCHANGED <<root_table, heap, lifo, raw, locks>>

\* asm!("csrw satp, {}") and asm!("csrr {}, satp")
Csr ==
    /\ Fetch.op = "csr"
    /\ pc' = pc + 1
    /\ last' = [op |-> Fetch.arg, held |-> locks]
    /\ UNCHANGED <<free_list, mem, root_table, heap, allocated, history, lifo, raw,
                   locks>>

\* OnceCell::set(vm).unwrap(): Err when the cell is already set
SetCell ==
    /\ Fetch.op = "set"
    /\ history' = [history EXCEPT !.cell = "set"]
    /\ pc' = Unwrapped(history.cell = "empty")
    /\ last' = [op |-> "set", ok |-> history.cell = "empty", held |-> locks]
    /\ UNCHANGED <<free_list, mem, root_table, heap, allocated, lifo, raw, locks>>

\* get().map(|vm| vm.translate(0x8000003c.try_into().unwrap()).unwrap())
TranslateCode ==
    /\ Fetch.op = "translate"
    /\ \E ret \in {translate(mem, Unwrap(root_table), try_from(CodeProbe).value)} :
           /\ pc' = Unwrapped(IsSome(ret))
           /\ last' = [op |-> "translate", ok |-> IsSome(ret), ret |-> ret,
                       held |-> locks]
    /\ raw' = CodeProbe
    /\ UNCHANGED <<free_list, mem, root_table, heap, allocated, history, lifo, locks>>

\* get().unwrap().root_table
ReadRoot ==
    /\ Fetch.op = "root_table"
    /\ pc' = Unwrapped(history.cell = "set")
    /\ last' = [op |-> "root_table", ok |-> history.cell = "set", held |-> locks]
    /\ UNCHANGED <<free_list, mem, root_table, heap, allocated, history, lifo, raw,
                   locks>>

\* get_mut().map(|vm| { vm.map(0x90000000, ReadWrite).unwrap(); }).unwrap()
TestMap ==
    /\ Fetch.op = "map"
    /\ \E res \in {map(free_list, mem, Unwrap(root_table),
                       try_from(TestAddress).value, "ReadWrite")} :
           /\ free_list' = res.free_list
           /\ mem' = res.mem
           /\ allocated' = PhysFrames(heap.frames) \ FreeSet(res.free_list, res.mem)
           /\ history' = [history EXCEPT !.phys = res.phys]
           /\ pc' = Unwrapped(res.ok /\ history.cell = "set")
           /\ last' = [op |-> "map", ok |-> res.ok, held |-> locks]
    /\ raw' = TestAddress
    /\ UNCHANGED <<root_table, heap, lifo, locks>>

\* ptr.write(1); assert_eq!(ptr.read(), 1): the byte lands in the frame the
\* page was mapped to.
TestAccess ==
    /\ Fetch.op = "ptr"
    /\ mem' = Store(mem, Unwrap(history.phys), One)
    /\ pc' = pc + 1
    /\ last' = [op |-> "ptr", ok |-> TRUE, held |-> locks]
    /\ UNCHANGED <<free_list, root_table, heap, allocated, history, lifo, raw,
                   locks>>

NextKernel ==
    \/ Acquire
    \/ Release
    \/ Write
    \/ NewAllocator
    \/ NewVirtualMemory
    \/ RunInit
    \/ Csr
    \/ SetCell
    \/ TranslateCode
    \/ ReadRoot
    \/ TestMap
    \/ TestAccess

SpecKernel == InitKernel /\ [][NextKernel]_vars

---------------------------------------------------------------------------
(* Claims about the locks *)

\* C21: every mutation of the allocator and of the address space made by the
\* kernel (PageAllocator::new with its dealloc calls, VirtualMemory::new with
\* its alloc, init, map) happens while the VIRTUAL_MEMORY lock is held.
C21_MutationsUnderLock ==
    last.op \in {"PageAllocator::new", "VirtualMemory::new", "init", "map"} =>
        "VIRTUAL_MEMORY" \in last.held

\* C22: the hart never comes to lock a spin lock it already holds, and never
\* waits for one; and once init has returned Ok, until "run" is printed the
\* hart stands at a step of initialise_kernel that it can take: it has not
\* panicked and is not blocked, so it goes on to print "run".
C22_NoNestedAcquire ==
    /\ last.op # "spin"
    /\ Fetch.op = "lock" => Fetch.arg \notin locks
    /\ (/\ history.init = "ok"
        /\ \A i \in DOMAIN history.printed : history.printed[i] # "run")
           => pc <= Len(initialise_kernel) /\ Fetch.op # "halt"

\* "run" has just been printed after a successful init; every guard has been
\* dropped, the serial port's last.
C22_Witness ==
    /\ history.init = "ok"
    /\ history.cell = "set"
    /\ last.op = "unlock" /\ last.lock = "QEMU_SERIAL"
    /\ locks = {}
    /\ history.printed # <<>>
    /\ history.printed[Len(history.printed)] = "run"

====
